---- MODULE Spec2Model ----
(***************************************************************************)
(* A model of components/network.py of QuNetSim: the Network singleton,    *)
(* its topology graph and ARP table, the packet queue with the background  *)
(* _process_queue worker, relay encapsulation (_encode), the quantum       *)
(* pre-pass (_route_quantum_info) and the entanglement-swap task           *)
(* (_entanglement_swap).  Hosts and the backend are outside the file; the  *)
(* model keeps of them only what the network calls.                        *)
(***************************************************************************)
EXTENDS Integers, Sequences, FiniteSets, TLC

\* ------------------------------------------------------------------ bounds
\* of Spec
MaxSend == 2        \* calls of send() by users of the network
MaxStart == 2       \* calls of start()
MaxForward == 2     \* envelopes re-enqueued by forwarding hosts
MaxTopoOps == 1     \* add_host / remove_host / _remove_network_node calls after setup
\* of TopoSpec
MaxTopoSteps == 4   \* add_host / remove_host / _remove_network_node calls
TopoMaxSend == 1    \* calls of send()
\* of RaceSpec
RaceMaxAdds == 3    \* calls of add_host
RaceMaxSend == 2    \* calls of send()
\* of MoverSpec
MaxUnits == 2       \* qubits of a packet
MoverMaxSend == 2   \* calls of send()
\* of SwapSpec
SwapMaxSend == 3    \* calls of send()
SwapMaxRequests == 2  \* of them, EPR requests

\* --------------------------------------------------------------- constants
None == "None"
HostIds == {"A", "B", "C", "D"}

\* host.connections of the hosts used: the line A - B - C - D
Connections(h) ==
    CASE h = "A" -> {"B"}
      [] h = "B" -> {"A", "C"}
      [] h = "C" -> {"B", "D"}
      [] h = "D" -> {"C"}

\* protocols.* tags
RELAY == "RELAY"
REC_EPR == "REC_EPR"
SEND_TELEPORT == "SEND_TELEPORT"
SEND_CLASSICAL == "SEND_CLASSICAL"
QUANTUM == "QUANTUM"
SIGNAL == "SIGNAL"
CLASSICAL == "CLASSICAL"
EPR == "EPR"

\* _encode's default ttl
DefaultTTL == 10

\* no add_host call is in progress
NoMutation == [none |-> TRUE]

NoPayload == [none |-> TRUE]
NoPacket == [none |-> TRUE]

\* ------------------------------------------------------------------- graph
\* nx.DiGraph: a set of nodes and a set of weighted directed edges <<u, v, w>>
HasEdge(es, u, v) == \E e \in es : e[1] = u /\ e[2] = v

Succ(es, u) == {e[2] : e \in {x \in es : x[1] = u}}

\* _update_network_graph: add_node, then for every connection both directed
\* edges unless present (add_edges_from adds the endpoint as a node)
UpdateNodes(ns, h) == ns \cup {h} \cup Connections(h)

\* UpdateEdges on a graph that keeps parallel edges and is never asked
\* has_edge: every call adds one more edge each way
UpdateEdgesStacking(es, h) ==
    es \cup {<<h, c, 1 + Cardinality({e \in es : e[1] = h /\ e[2] = c})>> : c \in Connections(h)}
       \cup {<<c, h, 1 + Cardinality({e \in es : e[1] = c /\ e[2] = h})>> : c \in Connections(h)}

\* UpdateEdges without lines 102-104: the edge from the host only
UpdateEdgesOneWay(es, h) ==
    es \cup {<<h, c, 1>> : c \in {x \in Connections(h) : ~HasEdge(es, h, x)}}

UpdateEdges(es, h) ==
    es \cup {<<h, c, 1>> : c \in {x \in Connections(h) : ~HasEdge(es, h, x)}}
       \cup {<<c, h, 1>> : c \in {x \in Connections(h) : ~HasEdge(es, x, h)}}

\* nx.DiGraph.remove_node: the node and every edge at it
RemoveNodeEdges(es, h) == {e \in es : e[1] # h /\ e[2] # h}

Last(s) == s[Len(s)]

\* breadth-first search from the frontier of simple paths
RECURSIVE Bfs(_, _, _, _)
Bfs(es, paths, seen, t) ==
    LET hits == {p \in paths : Last(p) = t}
        next == {Append(p, v) : p \in paths, v \in HostIds}
        ext  == {p \in next : /\ Last(p) \in Succ(es, p[Len(p) - 1])
                              /\ Last(p) \notin seen}
    IN  IF hits # {} THEN [ok |-> TRUE, route |-> CHOOSE p \in hits : TRUE]
        ELSE IF ext = {} THEN [ok |-> FALSE, err |-> "NetworkXNoPath"]
        ELSE Bfs(es, ext, seen \cup {Last(p) : p \in ext}, t)

\* nx.shortest_path(G, source, target), the default routing_algo
ShortestPath(ns, es, s, t) ==
    IF s \notin ns \/ t \notin ns
    THEN [ok |-> FALSE, err |-> "NodeNotFound"]
    ELSE Bfs(es, {<<s>>}, {s}, t)

\* ------------------------------------------------------------------- state
VARIABLES
    ARP,             \* self.ARP: the ids of the registered hosts
    nodes, edges,    \* self.network
    use_hop_by_hop,  \* self.use_hop_by_hop
    queue,           \* self._packet_queue
    stop_thread,     \* self._stop_thread
    workers,         \* the threads start() created, each at a place of _process_queue
    hist,            \* what each completed dispatch did: route, peer invoked, packet handed
    fwd,             \* relay envelopes received by a host that is not their receiver
    enq, deq,        \* every packet put on / taken from the queue, in order
    epr,             \* per host, the pairwise resources (EPR halves) it holds
    dataq,           \* per host, the data qubits filed by add_data_qubit
    swaps,           \* the _entanglement_swap tasks launched, each at its place
    creating,        \* send_epr instructions given to hosts and not yet carried out
    tele,            \* SEND_TELEPORT packets handed to hosts and not yet carried out
    mut,             \* the add_host call in progress on a user's thread, if any
    moves,           \* per call of _route_quantum_info, the backend calls it made
    nsent, nfwd, ntopo

vars == <<ARP, nodes, edges, use_hop_by_hop, queue, stop_thread, workers,
          hist, fwd, enq, deq, epr, dataq, swaps, creating, tele, mut, moves,
          nsent, nfwd, ntopo>>

netVars == <<ARP, nodes, edges, use_hop_by_hop>>
hostVars == <<epr, dataq, creating, tele>>

\* ----------------------------------------------------------------- packets
\* protocols.encode(sender, receiver, protocol, payload, payload_type)
Packet(s, r, proto, payload, ptype) ==
    [sender |-> s, receiver |-> r, protocol |-> proto,
     payload_type |-> ptype, payload |-> payload]

\* a qubit dictionary {'q', 'q_id', 'blocked'}; 'q' is the live handle, named
\* here by the host whose backend connection holds the qubit
Qubit(id, at, blocked) == [q_id |-> id, q |-> at, blocked |-> blocked]

\* the packets users hand to send()
Classical(s, r) == Packet(s, r, SEND_CLASSICAL, [data |-> "x"], CLASSICAL)
Quantum(s, r) == Packet(s, r, "SEND_QUBIT", [units |-> <<Qubit(1, s, TRUE)>>], QUANTUM)
RecEpr(s, r, payload) == Packet(s, r, REC_EPR, payload, SIGNAL)

\* of Spec: classical data over routes of 1 to 4 hosts, qubits to a neighbour
\* and to the far end, an EPR request to a neighbour with and without q_id
Inputs ==
    { Classical("A", "A"), Classical("A", "B"), Classical("A", "C"), Classical("A", "D"),
      Quantum("A", "B"), Quantum("A", "D"),
      RecEpr("A", "B", [q_id |-> 1]), RecEpr("A", "B", NoPayload) }

\* a packet of n qubits held by s
QuantumUnits(s, r, n) ==
    Packet(s, r, "SEND_QUBIT", [units |-> [k \in 1..n |-> Qubit(k, s, TRUE)]], QUANTUM)

\* of MoverSpec: up to MaxUnits qubits over routes of 1 to 4 hosts
MoverInputs == { QuantumUnits("A", r, n) : r \in HostIds, n \in 0..MaxUnits }

\* of SwapSpec: EPR requests over routes of 3 and 4 hosts, with and without
\* q_id, and classical data to a neighbour
SwapInputs ==
    { RecEpr("A", "C", [q_id |-> 1]), RecEpr("A", "D", [q_id |-> 2]),
      RecEpr("A", "C", NoPayload), Classical("A", "B") }

\* the uid is not a field of the code's dict: it stands for the identity of
\* the dict object handed to send()
WithUid(p, n) ==
    [uid |-> n, sender |-> p.sender, receiver |-> p.receiver, protocol |-> p.protocol,
     payload_type |-> p.payload_type, payload |-> p.payload]

\* Encode with the originator as the envelope's sender: route[0] written for
\* route[1] at line 360
EncodeFromOrigin(route, payload, hop_by_hop) ==
    [sender |-> route[1], payload |-> payload, protocol |-> RELAY,
     payload_type |-> SIGNAL, TTL |-> DefaultTTL, route |-> route,
     receiver |-> IF hop_by_hop THEN Last(route) ELSE route[3]]

\* _encode(route, payload, ttl=10)
Encode(route, payload, hop_by_hop) ==
    [sender |-> route[2], payload |-> payload, protocol |-> RELAY,
     payload_type |-> SIGNAL, TTL |-> DefaultTTL, route |-> route,
     receiver |-> IF hop_by_hop THEN Last(route) ELSE route[3]]

\* full_route[full_route.index(sender):]; index raises ValueError when absent
IndexOf(s, x) == CHOOSE i \in 1..Len(s) : s[i] = x /\ \A j \in 1..(i - 1) : s[j] # x

SubRoute(full_route, sender) ==
    IF \E i \in 1..Len(full_route) : full_route[i] = sender
    THEN [ok |-> TRUE, route |-> SubSeq(full_route, IndexOf(full_route, sender), Len(full_route))]
    ELSE [ok |-> FALSE, err |-> "ValueError"]

\* ComputeRoute with the router asked every time: lines 270-272 left out
ComputeRouteAlwaysRouter(p, ns, es, hop_by_hop) ==
    ShortestPath(ns, es, p.sender, p.receiver)

\* the route of the try block: lines 268-274
ComputeRoute(p, ns, es, hop_by_hop) ==
    IF hop_by_hop THEN ShortestPath(ns, es, p.sender, p.receiver)
    ELSE IF p.protocol = RELAY THEN SubRoute(p.route, p.sender)
    ELSE ShortestPath(ns, es, p.sender, p.receiver)

\* ------------------------------------------------- _route_quantum_info
\* transfer_qubits(s, r, ...): every qubit is sent by s and received by r; its
\* dictionary gets the handle received at r and is unblocked
TransferQubits(units, r) ==
    [k \in 1..Len(units) |-> [units[k] EXCEPT !.q = r, !.blocked = FALSE]]

\* the while loop over the links of the route; self.ARP[s] and self.ARP[r]
\* raise KeyError for a host that is not registered
RECURSIVE MoveAlong(_, _, _, _)
MoveAlong(units, route, i, arp) ==
    IF i >= Len(route) THEN [ok |-> TRUE, units |-> units, route |-> route]
    ELSE IF Len(units) > 0 /\ (route[i] \notin arp \/ route[i + 1] \notin arp)
    THEN [ok |-> FALSE, err |-> "KeyError"]
    ELSE MoveAlong(TransferQubits(units, route[i + 1]), route, i + 1, arp)

RouteQuantumInfo(p, ns, es, arp) ==
    LET r == ShortestPath(ns, es, p.sender, p.receiver)
    IN  IF ~r.ok THEN r ELSE MoveAlong(p.payload.units, r.route, 1, arp)

\* the backend calls of transfer_qubits(s, r, store, original_sender), in the
\* order of lines 220-234: for qubit k, sendQubit by s, then the blocking
\* recvQubit at r, then add_data_qubit at r if store
\* TransferCalls with every qubit sent before any is received
TransferCallsPipelined(n, k, s, r, store, original_sender) ==
    [j \in 1..n |-> [call |-> "sendQubit", unit |-> j, at |-> s, to |-> r]]
    \o [j \in 1..n |-> [call |-> "recvQubit", unit |-> j, at |-> r, to |-> r]]

RECURSIVE TransferCalls(_, _, _, _, _, _)
TransferCalls(n, k, s, r, store, original_sender) ==
    IF k > n THEN <<>>
    ELSE <<[call |-> "sendQubit", unit |-> k, at |-> s, to |-> r],
           [call |-> "recvQubit", unit |-> k, at |-> r, to |-> r]>>
         \o (IF store /\ original_sender # None
             THEN <<[call |-> "add_data_qubit", unit |-> k, at |-> r, to |-> original_sender]>>
             ELSE <<>>)
         \o TransferCalls(n, k + 1, s, r, store, original_sender)

\* the calls of the while loop of lines 237-245, link after link, up to the
\* link whose host is not registered
RECURSIVE MoveCalls(_, _, _, _)
MoveCalls(n, route, i, arp) ==
    IF i >= Len(route) THEN <<>>
    ELSE IF n > 0 /\ (route[i] \notin arp \/ route[i + 1] \notin arp) THEN <<>>
    ELSE (IF Len(route) - i + 1 # 2
          THEN TransferCalls(n, 1, route[i], route[i + 1], FALSE, None)
          ELSE TransferCalls(n, 1, route[i], route[i + 1], TRUE, route[1]))
         \o MoveCalls(n, route, i + 1, arp)

\* one call of _route_quantum_info for packet p: whether it returned, the
\* route it computed at line 236 and the backend calls it made
QuantumMove(p, ns, es, arp) ==
    LET r == ShortestPath(ns, es, p.sender, p.receiver)
    IN  [uid |-> p.uid, units |-> Len(p.payload.units),
         ok |-> RouteQuantumInfo(p, ns, es, arp).ok,
         route |-> IF r.ok THEN r.route ELSE <<>>,
         calls |-> IF r.ok THEN MoveCalls(Len(p.payload.units), r.route, 1, arp) ELSE <<>>]

\* add_data_qubit(original_sender, q, q_id) at the last host of the route,
\* called on the final link only
Filed(units, route) ==
    IF Len(route) < 2 THEN {}
    ELSE {[from |-> route[1], q_id |-> units[k].q_id] : k \in 1..Len(units)}

\* ------------------------------------------------------ the try block
\* the q_id add_epr mints when it is given none
MintedId(p) == 100 + p.uid

Dropped(route, err) ==
    [act |-> "drop", err |-> err, route |-> route, to |-> None, out |-> NoPacket,
     made |-> {}]

\* DeliverDirect with the packet handed to the sender's host: ARP[sender]
\* written for ARP[receiver] at line 291
DeliverDirectToSender(p, route, arp) ==
    IF p.sender \notin arp THEN Dropped(route, "KeyError")
    ELSE [act |-> "direct", err |-> None, route |-> route, to |-> p.sender,
          out |-> p, made |-> {}]

\* lines 280-291: route of length 2, protocol other than RELAY
DeliverDirect(p, route, arp) ==
    IF p.protocol = REC_EPR /\ (p.sender \notin arp \/ p.receiver \notin arp)
    THEN Dropped(route, "AttributeError")
    ELSE IF p.receiver \notin arp THEN Dropped(route, "KeyError")
    ELSE IF p.protocol = REC_EPR
    THEN LET q_id == IF p.payload = NoPayload THEN MintedId(p) ELSE p.payload.q_id
         IN  [act |-> "direct", err |-> None, route |-> route, to |-> p.receiver,
              out |-> [p EXCEPT !.payload = [q_id |-> q_id]],
              made |-> {[host |-> p.sender, partner |-> p.receiver, q_id |-> q_id]}]
    ELSE [act |-> "direct", err |-> None, route |-> route, to |-> p.receiver,
          out |-> p, made |-> {}]

\* line 293: route of length 2, protocol RELAY: the payload goes to the receiver
DeliverInner(p, route, arp) ==
    IF p.receiver \notin arp THEN Dropped(route, "KeyError")
    ELSE [act |-> "unwrap", err |-> None, route |-> route, to |-> p.receiver,
          out |-> p.payload, made |-> {}]

\* lines 299-301: a longer route, protocol other than REC_EPR
RelayOn(p, route, arp, hop_by_hop) ==
    IF route[2] \notin arp THEN Dropped(route, "KeyError")
    ELSE [act |-> "relay", err |-> None, route |-> route, to |-> route[2],
          out |-> Encode(route, p, hop_by_hop), made |-> {}]

\* lines 295-297: a longer route, protocol REC_EPR: the swap is launched
LaunchSwap(p, route) ==
    IF p.payload = NoPayload THEN Dropped(route, "TypeError")
    ELSE [act |-> "swap", err |-> None, route |-> route, to |-> None, out |-> NoPacket,
          made |-> {}]

\* lines 267-308: what the try block does with the packet p
Handle(p, ns, es, arp, hop_by_hop) ==
    LET r == ComputeRoute(p, ns, es, hop_by_hop)
    IN  IF ~r.ok THEN Dropped(<<>>, r.err)
        ELSE IF Len(r.route) < 2 THEN Dropped(r.route, "Exception")
        ELSE IF Len(r.route) = 2
             THEN IF p.protocol # RELAY THEN DeliverDirect(p, r.route, arp)
                  ELSE DeliverInner(p, r.route, arp)
        ELSE IF p.protocol = REC_EPR THEN LaunchSwap(p, r.route)
        ELSE RelayOn(p, r.route, arp, hop_by_hop)

\* ------------------------------------------------------------------- Init
\* the hosts of the line are registered one after the other on a new Network
RECURSIVE RegisteredNodes(_)
RegisteredNodes(hs) ==
    IF hs = {} THEN {}
    ELSE LET h == CHOOSE x \in hs : TRUE
         IN  UpdateNodes(RegisteredNodes(hs \ {h}), h)

RECURSIVE RegisteredEdges(_)
RegisteredEdges(hs) ==
    IF hs = {} THEN {}
    ELSE LET h == CHOOSE x \in hs : TRUE
         IN  UpdateEdges(RegisteredEdges(hs \ {h}), h)

Init ==
    /\ ARP = HostIds
    /\ nodes = RegisteredNodes(HostIds)
    /\ edges = RegisteredEdges(HostIds)
    /\ use_hop_by_hop \in BOOLEAN
    /\ queue = <<>>
    /\ stop_thread = FALSE
    /\ workers = <<>>
    /\ hist = <<>>
    /\ fwd = {}
    /\ enq = <<>>
    /\ deq = <<>>
    /\ epr = [h \in HostIds |-> {}]
    /\ dataq = [h \in HostIds |-> {}]
    /\ swaps = <<>>
    /\ creating = {}
    /\ tele = {}
    /\ mut = NoMutation
    /\ moves = <<>>
    /\ nsent = 0
    /\ nfwd = 0
    /\ ntopo = 0

\* --------------------------------------------------- topology and ARP table
\* add_host(host)
AddHost(h, max) ==
    /\ ntopo < max
    /\ ARP' = ARP \cup {h}
    /\ nodes' = UpdateNodes(nodes, h)
    /\ edges' = UpdateEdges(edges, h)
    /\ ntopo' = ntopo + 1
    /\ UNCHANGED <<mut, moves, use_hop_by_hop, queue, stop_thread, workers, hist, fwd, enq, deq,
                   hostVars, swaps, nsent, nfwd>>

\* RemoveHost taking the host out of the graph as well
RemoveHostAndNode(h, max) ==
    /\ ntopo < max
    /\ ARP' = ARP \ {h}
    /\ nodes' = nodes \ {h}
    /\ edges' = RemoveNodeEdges(edges, h)
    /\ ntopo' = ntopo + 1
    /\ UNCHANGED <<mut, moves, use_hop_by_hop, queue, stop_thread, workers, hist,
                   fwd, enq, deq, hostVars, swaps, nsent, nfwd>>

\* remove_host(host)
RemoveHost(h, max) ==
    /\ ntopo < max
    /\ ARP' = IF h \in ARP THEN ARP \ {h} ELSE ARP
    /\ ntopo' = ntopo + 1
    /\ UNCHANGED <<mut, moves, nodes, edges, use_hop_by_hop, queue, stop_thread, workers, hist,
                   fwd, enq, deq, hostVars, swaps, nsent, nfwd>>

\* _remove_network_node(host): NetworkXError for an absent node is caught
RemoveNetworkNode(h, max) ==
    /\ ntopo < max
    /\ nodes' = nodes \ {h}
    /\ edges' = IF h \in nodes THEN RemoveNodeEdges(edges, h) ELSE edges
    /\ ntopo' = ntopo + 1
    /\ UNCHANGED <<mut, moves, ARP, use_hop_by_hop, queue, stop_thread, workers, hist, fwd, enq,
                   deq, hostVars, swaps, nsent, nfwd>>

\* ------------------------------------------------------ send, start, stop
\* send(packet): Queue.put
Put(q, p) == Append(q, p)

Send(p, max) ==
    /\ nsent < max
    /\ queue' = Put(queue, WithUid(p, nsent + 1))
    /\ enq' = Append(enq, WithUid(p, nsent + 1))
    /\ nsent' = nsent + 1
    /\ UNCHANGED <<mut, moves, netVars, stop_thread, workers, hist, fwd, deq, hostVars, swaps,
                   nfwd, ntopo>>

\* start(): a new DaemonThread running _process_queue, whatever ran before
Start(max) ==
    /\ Len(workers) < max
    /\ workers' = Append(workers, [pc |-> "top", packet |-> NoPacket])
    /\ UNCHANGED <<mut, moves, netVars, queue, stop_thread, hist, fwd, enq, deq, hostVars, swaps,
                   nsent, nfwd, ntopo>>

\* stop()
Stop ==
    /\ ~stop_thread
    /\ stop_thread' = TRUE
    /\ UNCHANGED <<mut, moves, netVars, queue, workers, hist, fwd, enq, deq, hostVars, swaps,
                   nsent, nfwd, ntopo>>

\* --------------------------------------------------------- _process_queue
\* SwapThread with the swap called on the worker's own thread:
\* self._entanglement_swap(...) written for DaemonThread(...) at line 297
SwapThreadInline(w) == w

\* line 297: DaemonThread(self._entanglement_swap, ...) runs the swap on a
\* thread of its own (0), never on the worker's (w = 1, 2, ...)
SwapThread(w) == 0

Running(t) == t.pc \notin {"done", "failed"}

\* a thread runs one call at a time: a worker goes on when no call it makes
\* is still running on it
WorkerFree(w) == \A k \in 1..Len(swaps) : ~(swaps[k].thread = w /\ Running(swaps[k]))

\* TopNext with the flag never looked at: lines 253-254 left out
TopNextIgnoringStop(stop) == "poll"

\* lines 252-254: the flag is read at the top of every iteration
TopNext(stop) == IF stop THEN "exited" ELSE "poll"

\* line 256
PollNext(q) == IF q = <<>> THEN "top" ELSE "get"

LoopTop(w) ==
    /\ workers[w].pc = "top"
    /\ WorkerFree(w)
    /\ workers' = [workers EXCEPT ![w].pc = TopNext(stop_thread)]
    /\ UNCHANGED <<mut, moves, netVars, queue, stop_thread, hist, fwd, enq, deq, hostVars, swaps,
                   nsent, nfwd, ntopo>>

Poll(w) ==
    /\ workers[w].pc = "poll"
    /\ workers' = [workers EXCEPT ![w].pc = PollNext(queue)]
    /\ UNCHANGED <<mut, moves, netVars, queue, stop_thread, hist, fwd, enq, deq, hostVars, swaps,
                   nsent, nfwd, ntopo>>

\* lines 259-262: Queue.get blocks while the queue is empty
Get(w) ==
    /\ workers[w].pc = "get"
    /\ queue # <<>>
    /\ queue' = Tail(queue)
    /\ deq' = Append(deq, Head(queue))
    /\ workers' = [workers EXCEPT ![w] =
            [pc |-> IF Head(queue).payload_type = QUANTUM THEN "prepass" ELSE "route",
             packet |-> Head(queue)]]
    /\ UNCHANGED <<mut, moves, netVars, stop_thread, hist, fwd, enq, hostVars, swaps,
                   nsent, nfwd, ntopo>>

\* Prepass with line 265 left out: the packet goes on to the try block and no
\* qubit is moved
PrepassSkipped(w) ==
    /\ workers[w].pc = "prepass"
    /\ workers' = [workers EXCEPT ![w].pc = "route"]
    /\ UNCHANGED <<mut, moves, netVars, queue, stop_thread, hist, fwd, enq, deq, hostVars,
                   swaps, nsent, nfwd, ntopo>>

\* lines 264-265: outside the try block, so what _route_quantum_info raises
\* ends the thread
Prepass(w) ==
    LET p == workers[w].packet
        r == RouteQuantumInfo(p, nodes, edges, ARP)
    IN  /\ workers[w].pc = "prepass"
        /\ IF r.ok
           THEN /\ workers' = [workers EXCEPT ![w] =
                        [pc |-> "route", packet |-> [p EXCEPT !.payload.units = r.units]]]
                /\ dataq' = IF Len(r.route) < 2 THEN dataq
                            ELSE [dataq EXCEPT ![Last(r.route)] = @ \cup Filed(r.units, r.route)]
           ELSE /\ workers' = [workers EXCEPT ![w] = [pc |-> "dead", packet |-> NoPacket]]
                /\ dataq' = dataq
        /\ moves' = Append(moves, QuantumMove(p, nodes, edges, ARP))
        /\ UNCHANGED <<mut, netVars, queue, stop_thread, hist, fwd, enq, deq, epr, creating,
                       tele, swaps, nsent, nfwd, ntopo>>

NewSwap(p, route, w) ==
    [sender |-> p.sender, receiver |-> p.receiver, route |-> route,
     q_id |-> p.payload.q_id, thread |-> SwapThread(w), pc |-> "create", i |-> 1,
     created |-> <<>>, sent |-> <<>>]

\* a host that receives a relay envelope of which it is not the receiver
\* sends it to the network again
Forwards(h, pkt) == pkt.protocol = RELAY /\ pkt.receiver # h

Dispatch(w) ==
    LET p == workers[w].packet
        h == Handle(p, nodes, edges, ARP, use_hop_by_hop)
    IN  /\ workers[w].pc = "route"
        /\ hist' = Append(hist, [pkt |-> p, route |-> h.route, act |-> h.act,
                                  err |-> h.err, to |-> h.to, out |-> h.out, arp |-> ARP])
        /\ fwd' = IF h.to # None /\ Forwards(h.to, h.out)
                  THEN fwd \cup {[host |-> h.to, pkt |-> h.out]} ELSE fwd
        /\ epr' = [x \in HostIds |->
                     epr[x] \cup {[partner |-> m.partner, q_id |-> m.q_id] :
                                    m \in {y \in h.made : y.host = x}}]
        /\ swaps' = IF h.act = "swap" THEN Append(swaps, NewSwap(p, h.route, w)) ELSE swaps
        /\ workers' = [workers EXCEPT ![w] = [pc |-> "top", packet |-> NoPacket]]
        /\ UNCHANGED <<mut, moves, netVars, queue, stop_thread, enq, deq, dataq, creating, tele,
                       nsent, nfwd, ntopo>>

\* the forwarding host calls send() with the envelope it received
HostForward(f, max) ==
    /\ nfwd < max
    /\ fwd' = fwd \ {f}
    /\ queue' = Put(queue, f.pkt)
    /\ enq' = Append(enq, f.pkt)
    /\ nfwd' = nfwd + 1
    /\ UNCHANGED <<mut, moves, netVars, stop_thread, workers, hist, deq, hostVars, swaps,
                   nsent, ntopo>>

\* ------------------------------------------------------ _entanglement_swap
\* CreateCount one short: range(len(route) - 2) written at line 186
CreateCountShort(route) == Len(route) - 2

\* line 186: range(len(route) - 1)
CreateCount(route) == Len(route) - 1

\* line 189: range(len(route) - 2)
TransferCount(route) == Len(route) - 2

SetSwap(k, t) == swaps' = [swaps EXCEPT ![k] = t]

\* lines 186-187: get_host(route[i]).send_epr(route[i + 1], q_id, True);
\* get_host gives None for a host that is not registered
SwapCreate(k) ==
    LET t == swaps[k]
        a == t.route[t.i]
        b == t.route[t.i + 1]
    IN  /\ t.pc = "create"
        /\ IF a \notin ARP
           THEN /\ SetSwap(k, [t EXCEPT !.pc = "failed"])
                /\ creating' = creating
           ELSE /\ creating' = creating \cup {[a |-> a, b |-> b, q_id |-> t.q_id]}
                /\ SetSwap(k, [t EXCEPT
                        !.created = Append(@, <<a, b, t.q_id>>),
                        !.i = IF t.i >= CreateCount(t.route) THEN 1 ELSE t.i + 1,
                        !.pc = IF t.i < CreateCount(t.route) THEN "create"
                               ELSE IF TransferCount(t.route) >= 1 THEN "poll"
                               ELSE "refile"])
        /\ UNCHANGED <<mut, moves, netVars, queue, stop_thread, workers, hist, fwd, enq, deq, epr,
                       dataq, tele, nsent, nfwd, ntopo>>

\* lines 192-204: the poll of get_epr(route[0]) at hop route[i + 1] has found a
\* pair; the SEND_TELEPORT packet is built and handed to that hop
SwapTransfer(k) ==
    LET t == swaps[k]
        hop == t.route[t.i + 1]
        nxt == t.route[t.i + 2]
    IN  /\ t.pc = "poll"
        /\ IF hop \notin ARP
           THEN /\ SetSwap(k, [t EXCEPT !.pc = "failed"])
                /\ tele' = tele
           ELSE \E q \in {x \in epr[hop] : x.partner = t.route[1]} :
                /\ tele' = tele \cup
                     {[host |-> hop,
                       pkt |-> Packet(hop, nxt, SEND_TELEPORT,
                                      [q_id |-> q.q_id, node |-> t.sender, type |-> EPR],
                                      SIGNAL)]}
                /\ SetSwap(k, [t EXCEPT
                        !.sent = Append(@, hop),
                        !.i = t.i + 1,
                        !.pc = IF t.i >= TransferCount(t.route) THEN "refile" ELSE "poll"])
        /\ UNCHANGED <<mut, moves, netVars, queue, stop_thread, workers, hist, fwd, enq, deq, epr,
                       dataq, creating, nsent, nfwd, ntopo>>

\* lines 206-207: q2 = host_sender.get_epr(route[1]); add_epr(receiver, ...)
SwapRefile(k) ==
    LET t == swaps[k]
        held == IF t.sender \in ARP
                THEN {x \in epr[t.sender] : x.partner = t.route[2]} ELSE {}
    IN  /\ t.pc = "refile"
        /\ IF held = {}
           THEN /\ SetSwap(k, [t EXCEPT !.pc = "failed"])
                /\ epr' = epr
           ELSE \E q2 \in held :
                /\ epr' = [epr EXCEPT ![t.sender] =
                               @ \cup {[partner |-> t.receiver, q_id |-> q2.q_id]}]
                /\ SetSwap(k, [t EXCEPT !.pc = "done"])
        /\ UNCHANGED <<mut, moves, netVars, queue, stop_thread, workers, hist, fwd, enq, deq,
                       dataq, creating, tele, nsent, nfwd, ntopo>>

\* ------------------------------------------------------------------ hosts
\* a host carries out send_epr: the pair exists, one half at each end
EprCreated(c) ==
    /\ creating' = creating \ {c}
    /\ epr' = [x \in HostIds |->
                 IF x = c.a THEN epr[x] \cup {[partner |-> c.b, q_id |-> c.q_id]}
                 ELSE IF x = c.b THEN epr[x] \cup {[partner |-> c.a, q_id |-> c.q_id]}
                 ELSE epr[x]]
    /\ UNCHANGED <<mut, moves, netVars, queue, stop_thread, workers, hist, fwd, enq, deq, dataq,
                   tele, swaps, nsent, nfwd, ntopo>>

\* a hop carries out SEND_TELEPORT: its receiver now holds a pair shared with
\* the node named in the packet
HostTeleport(x) ==
    /\ tele' = tele \ {x}
    /\ epr' = [epr EXCEPT ![x.pkt.receiver] =
                   @ \cup {[partner |-> x.pkt.payload.node, q_id |-> x.pkt.payload.q_id]}]
    /\ UNCHANGED <<mut, moves, netVars, queue, stop_thread, workers, hist, fwd, enq, deq, dataq,
                   creating, swaps, nsent, nfwd, ntopo>>

\* ------------------------------------------------------------------- Next
WorkerStep(w) == LoopTop(w) \/ Poll(w) \/ Get(w) \/ Prepass(w) \/ Dispatch(w)

\* the network with its users: registration, lifecycle, the worker threads and
\* the forwarding hosts
Next ==
    \/ \E h \in HostIds : AddHost(h, MaxTopoOps)
    \/ \E h \in HostIds : RemoveHost(h, MaxTopoOps)
    \/ \E h \in HostIds : RemoveNetworkNode(h, MaxTopoOps)
    \/ \E p \in Inputs : Send(p, MaxSend)
    \/ Start(MaxStart)
    \/ Stop
    \/ \E w \in DOMAIN workers : LoopTop(w)
    \/ \E w \in DOMAIN workers : Poll(w)
    \/ \E w \in DOMAIN workers : Get(w)
    \/ \E w \in DOMAIN workers : Prepass(w)
    \/ \E w \in DOMAIN workers : Dispatch(w)
    \/ \E f \in fwd : HostForward(f, MaxForward)

Spec == Init /\ [][Next]_vars

Requests(q) == Cardinality({i \in 1..Len(q) : q[i].protocol = REC_EPR})

\* a started network with EPR requests over several hops: the worker, the swap
\* tasks it launches and the hosts that carry out their instructions
SwapInit ==
    /\ Init
    /\ use_hop_by_hop

SwapNext ==
    \/ \E p \in SwapInputs :
          /\ p.protocol = REC_EPR => Requests(enq) < SwapMaxRequests
          /\ Send(p, SwapMaxSend)
    \/ Start(1)
    \/ Stop
    \/ \E w \in DOMAIN workers : LoopTop(w)
    \/ \E w \in DOMAIN workers : Poll(w)
    \/ \E w \in DOMAIN workers : Get(w)
    \/ \E w \in DOMAIN workers : Dispatch(w)
    \/ \E k \in DOMAIN swaps : SwapCreate(k)
    \/ \E k \in DOMAIN swaps : SwapTransfer(k)
    \/ \E k \in DOMAIN swaps : SwapRefile(k)
    \/ \E c \in creating : EprCreated(c)
    \/ \E x \in tele : HostTeleport(x)

SwapSpec == SwapInit /\ [][SwapNext]_vars

\* of FairSpec and TopoSpec: data to a neighbour and over a relay, and qubits to a neighbour
FairInputs == { Classical("A", "B"), Classical("A", "C"), Quantum("A", "B") }

\* __init__ (lines 21-33): a new Network, with no host and an empty graph
NewNetwork ==
    /\ ARP = {}
    /\ nodes = {}
    /\ edges = {}
    /\ use_hop_by_hop = TRUE
    /\ queue = <<>>
    /\ stop_thread = FALSE
    /\ workers = <<>>
    /\ hist = <<>>
    /\ fwd = {}
    /\ enq = <<>>
    /\ deq = <<>>
    /\ epr = [h \in HostIds |-> {}]
    /\ dataq = [h \in HostIds |-> {}]
    /\ swaps = <<>>
    /\ creating = {}
    /\ tele = {}
    /\ mut = NoMutation
    /\ moves = <<>>
    /\ nsent = 0
    /\ nfwd = 0
    /\ ntopo = 0

\* registration and removal on a new Network, in any order
TopoNext ==
    \/ \E h \in HostIds : AddHost(h, MaxTopoSteps)
    \/ \E h \in HostIds : RemoveHost(h, MaxTopoSteps)
    \/ \E h \in HostIds : RemoveNetworkNode(h, MaxTopoSteps)
    \/ \E p \in FairInputs : Send(p, TopoMaxSend)
    \/ Stop

TopoSpec == NewNetwork /\ [][TopoNext]_vars

\* ------------------------------------- add_host, statement by statement
\* add_host on a user's thread while the worker runs: nothing in the file
\* takes a lock, so the worker's thread may run between any two statements
\* line 62: self.ARP[host.host_id] = host
AddBegin(h, max) ==
    /\ mut = NoMutation
    /\ ntopo < max
    /\ ARP' = ARP \cup {h}
    /\ mut' = [h |-> h, pc |-> "add_node", todo |-> Connections(h), c |-> None]
    /\ ntopo' = ntopo + 1
    /\ UNCHANGED <<nodes, edges, use_hop_by_hop, queue, stop_thread, workers, hist, fwd,
                   enq, deq, hostVars, swaps, moves, nsent, nfwd>>

\* what follows the body of the for loop of line 97
AfterConnection(m) ==
    IF m.todo = {} THEN NoMutation ELSE [m EXCEPT !.pc = "out", !.c = None]

\* line 95: self.network.add_node(host.host_id)
AddNode ==
    /\ mut # NoMutation
    /\ mut.pc = "add_node"
    /\ nodes' = nodes \cup {mut.h}
    /\ mut' = AfterConnection(mut)
    /\ UNCHANGED <<ARP, edges, use_hop_by_hop, queue, stop_thread, workers, hist, fwd,
                   enq, deq, hostVars, swaps, moves, nsent, nfwd, ntopo>>

\* lines 98-100 for the connection c: the edge from the host
AddEdgeOut(c) ==
    /\ mut # NoMutation
    /\ mut.pc = "out"
    /\ c \in mut.todo
    /\ edges' = IF HasEdge(edges, mut.h, c) THEN edges ELSE edges \cup {<<mut.h, c, 1>>}
    /\ nodes' = IF HasEdge(edges, mut.h, c) THEN nodes ELSE nodes \cup {mut.h, c}
    /\ mut' = [mut EXCEPT !.pc = "in", !.c = c, !.todo = @ \ {c}]
    /\ UNCHANGED <<ARP, use_hop_by_hop, queue, stop_thread, workers, hist, fwd,
                   enq, deq, hostVars, swaps, moves, nsent, nfwd, ntopo>>

\* lines 102-104 for the same connection: the edge to the host
AddEdgeIn ==
    /\ mut # NoMutation
    /\ mut.pc = "in"
    /\ edges' = IF HasEdge(edges, mut.c, mut.h) THEN edges ELSE edges \cup {<<mut.c, mut.h, 1>>}
    /\ nodes' = IF HasEdge(edges, mut.c, mut.h) THEN nodes ELSE nodes \cup {mut.h, mut.c}
    /\ mut' = AfterConnection(mut)
    /\ UNCHANGED <<ARP, use_hop_by_hop, queue, stop_thread, workers, hist, fwd,
                   enq, deq, hostVars, swaps, moves, nsent, nfwd, ntopo>>

\* a started network given packets of qubits, with a host that may leave
MoverNext ==
    \/ \E h \in HostIds : RemoveHost(h, MaxTopoOps)
    \/ \E p \in MoverInputs : Send(p, MoverMaxSend)
    \/ Start(1)
    \/ \E w \in DOMAIN workers : LoopTop(w)
    \/ \E w \in DOMAIN workers : Poll(w)
    \/ \E w \in DOMAIN workers : Get(w)
    \/ \E w \in DOMAIN workers : Prepass(w)
    \/ \E w \in DOMAIN workers : Dispatch(w)
    \/ \E f \in fwd : HostForward(f, MaxForward)

MoverSpec == Init /\ [][MoverNext]_vars

\* of RaceSpec: data between neighbours, either way
RaceInputs == { Classical("A", "B"), Classical("B", "A"), Classical("B", "C") }

\* hosts being registered on a new Network that has been started and is
\* given packets meanwhile
RaceNext ==
    \/ \E h \in HostIds : AddBegin(h, RaceMaxAdds)
    \/ AddNode
    \/ \E c \in HostIds : AddEdgeOut(c)
    \/ AddEdgeIn
    \/ \E p \in RaceInputs : Send(p, RaceMaxSend)
    \/ Start(1)
    \/ \E w \in DOMAIN workers : LoopTop(w)
    \/ \E w \in DOMAIN workers : Poll(w)
    \/ \E w \in DOMAIN workers : Get(w)
    \/ \E w \in DOMAIN workers : Dispatch(w)

RaceSpec == NewNetwork /\ [][RaceNext]_vars

\* one started network whose worker thread is scheduled again and again, with
\* callers of send, one host leaving, and stop()
FairNext ==
    \/ \E h \in HostIds : RemoveHost(h, MaxTopoOps)
    \/ \E p \in FairInputs : Send(p, MaxSend)
    \/ Start(1)
    \/ Stop
    \/ \E w \in DOMAIN workers : LoopTop(w)
    \/ \E w \in DOMAIN workers : Poll(w)
    \/ \E w \in DOMAIN workers : Get(w)
    \/ \E w \in DOMAIN workers : Prepass(w)
    \/ \E w \in DOMAIN workers : Dispatch(w)
    \/ \E f \in fwd : HostForward(f, MaxForward)

\* a thread that can take a step is given the processor sooner or later
FairSpec == Init /\ [][FairNext]_vars /\ WF_vars(\E w \in DOMAIN workers : WorkerStep(w))

\* ----------------------------------------------------------------- claims
\* a packet a user handed to send(), as against an envelope built by _encode
IsOriginal(p) == "uid" \in DOMAIN p

\* the packet handed to send() under the given uid
Sent(u) == CHOOSE x \in {enq[j] : j \in {k \in 1..Len(enq) : IsOriginal(enq[k])}} : x.uid = u

\* the packet inside every layer of relay envelope
RECURSIVE Innermost(_)
Innermost(p) == IF IsOriginal(p) \/ p = NoPacket THEN p ELSE Innermost(p.payload)

\* the dispatches that invoked a host's rec_packet with something carrying packet u
Handed(u) == {j \in 1..Len(hist) : hist[j].to # None /\ Innermost(hist[j].out).uid = u}

Live(w) == workers[w].pc \notin {"exited", "dead"}

\* C1: while stop() has not been called, no packet ends a worker thread: a
\* fault at any stage of a packet's processing drops that packet only
C1_NoPacketEndsTheWorker ==
    ~stop_thread => \A w \in DOMAIN workers : workers[w].pc # "dead"

\* a dispatch over a route of two registered neighbours of a packet that is
\* neither a relay envelope nor an EPR request
IsDirect(e) ==
    /\ Len(e.route) = 2
    /\ e.pkt.protocol \notin {RELAY, REC_EPR}
    /\ {e.pkt.sender, e.pkt.receiver} \subseteq e.arp

\* C2 as claimed: a direct delivery invokes rec_packet of the receiver, of no
\* other host, exactly once, with the packet as it was handed to send()
C2_DirectDeliveryUnmodified ==
    \A i \in 1..Len(hist) :
        IsDirect(hist[i]) =>
            /\ hist[i].to = hist[i].pkt.receiver
            /\ hist[i].out = Sent(hist[i].pkt.uid)
            /\ Handed(hist[i].pkt.uid) = {i}

\* the qubits as the quantum pre-pass leaves them at host r
MovedTo(units, orig, r) ==
    /\ Len(units) = Len(orig)
    /\ \A k \in 1..Len(orig) :
          units[k].q_id = orig[k].q_id /\ units[k].q = r /\ ~units[k].blocked

\* C2 as amended: a direct delivery invokes rec_packet of the receiver, of no
\* other host, exactly once, with the packet's sender, receiver, protocol and
\* payload_type as sent; the payload is as sent unless the payload_type is
\* QUANTUM, when each qubit carries the handle received at the receiver and
\* is unblocked
C2_DirectDelivery ==
    \A i \in 1..Len(hist) :
        IsDirect(hist[i]) =>
            LET out == hist[i].out
                org == Sent(hist[i].pkt.uid)
            IN  /\ hist[i].to = org.receiver
                /\ Handed(org.uid) = {i}
                /\ IsOriginal(out)
                /\ out.uid = org.uid /\ out.sender = org.sender
                /\ out.receiver = org.receiver /\ out.protocol = org.protocol
                /\ out.payload_type = org.payload_type
                /\ IF org.payload_type = QUANTUM
                   THEN MovedTo(out.payload.units, org.payload.units, org.receiver)
                   ELSE out.payload = org.payload

\* a qubit and classical data have both been delivered directly
C2_Witness ==
    \E i, j \in 1..Len(hist) :
        /\ IsDirect(hist[i]) /\ hist[i].pkt.payload_type = QUANTUM
        /\ hist[i].to = "B"
        /\ IsDirect(hist[j]) /\ hist[j].pkt.payload_type = CLASSICAL
        /\ hist[j].to = "B"

\* C3: in hop-by-hop mode the first dispatch of a packet over a longer route
\* hands one envelope (RELAY, SIGNAL, the full route) to route[1]; the last
\* dispatch hands the receiver the original packet with no envelope around
\* it; no other host is handed the original packet itself
C3_RelayChain ==
    use_hop_by_hop =>
        \A i \in 1..Len(hist) :
            LET e == hist[i]
            IN  /\ (e.act = "relay" /\ IsOriginal(e.pkt)) =>
                      /\ e.to = e.route[2]
                      /\ e.out.protocol = RELAY /\ e.out.payload_type = SIGNAL
                      /\ e.out.route = e.route
                      /\ Handed(e.pkt.uid) \cap 1..i = {i}
                /\ e.act = "unwrap" => (IsOriginal(e.out) /\ e.to = e.out.receiver)
                /\ (e.to # None /\ IsOriginal(e.out)) => e.to = e.out.receiver

\* C4: every envelope handed to a host carries the packet handed to send(),
\* never another envelope, with its sender, receiver, protocol and
\* payload_type as sent (and its payload, the qubits of a QUANTUM packet
\* apart, which the pre-pass has moved)
C4_EnvelopeCarriesOriginal ==
    \A i \in 1..Len(hist) :
        hist[i].act = "relay" =>
            LET inner == hist[i].out.payload
            IN  /\ inner.protocol # RELAY
                /\ IsOriginal(inner)
                /\ inner.sender = Sent(inner.uid).sender
                /\ inner.receiver = Sent(inner.uid).receiver
                /\ inner.protocol = Sent(inner.uid).protocol
                /\ inner.payload_type = Sent(inner.uid).payload_type
                /\ inner.payload_type # QUANTUM => inner.payload = Sent(inner.uid).payload

\* C10: at most one worker thread is alive, and a worker that has seen the
\* queue non-empty finds it non-empty at its get()
C10_OneWorker ==
    /\ Cardinality({w \in DOMAIN workers : Live(w)}) <= 1
    /\ \A w \in DOMAIN workers : workers[w].pc = "get" => queue # <<>>

\* the swap task has issued one creation per link of its route, in order and
\* under its q_id, and one transfer to each interior hop, in order
Complete(t) ==
    LET n == Len(t.route)
    IN  /\ Len(t.created) = n - 1
        /\ \A i \in 1..(n - 1) : t.created[i] = <<t.route[i], t.route[i + 1], t.q_id>>
        /\ Len(t.sent) = n - 2
        /\ \A i \in 1..(n - 2) : t.sent[i] = t.route[i + 1]

\* C6: when the sender of a swap over N hosts has re-filed its pair as shared
\* with the receiver, the task has issued exactly N-1 creations, one per
\* link, all under its q_id, and exactly N-2 SEND_TELEPORT packets, one to
\* each interior hop
C6_SwapChainLength ==
    \A k \in 1..Len(swaps) :
        LET t == swaps[k]
        IN  /\ t.pc = "done" => Complete(t)
            /\ (\E x \in epr[t.sender] : x.partner = t.receiver) =>
                   \E j \in 1..Len(swaps) :
                       /\ swaps[j].sender = t.sender /\ swaps[j].receiver = t.receiver
                       /\ swaps[j].pc = "done" /\ Complete(swaps[j])

\* swaps over 3 and over 4 hosts have both completed
C6_Witness ==
    \E j, k \in 1..Len(swaps) :
        /\ swaps[j].pc = "done" /\ Len(swaps[j].route) = 3
        /\ swaps[k].pc = "done" /\ Len(swaps[k].route) = 4
        /\ \E x \in epr["A"] : x.partner = "D"

\* C7: a step that hands a hop its SEND_TELEPORT packet is taken only when the
\* pair between that hop and its successor exists and the hop holds a pair
\* shared with the sender
C7_SwapOrdering ==
    [][\A k \in 1..Len(swaps) :
          Len(swaps'[k].sent) > Len(swaps[k].sent) =>
              LET t == swaps[k]
                  hop == t.route[t.i + 1]
                  nxt == t.route[t.i + 2]
              IN  /\ \E x \in epr[hop] : x.partner = nxt /\ x.q_id = t.q_id
                  /\ \E x \in epr[hop] : x.partner = t.sender]_vars

\* C8: whatever the swap tasks are doing, the worker's next step can be
\* taken (its get() apart, which waits for a packet only): no swap runs on a
\* worker's thread
C8_NeverBlocksOnSwap ==
    \A w \in DOMAIN workers :
        /\ \A k \in 1..Len(swaps) : swaps[k].thread # w
        /\ workers[w].pc = "top" => ENABLED LoopTop(w)
        /\ workers[w].pc = "poll" => ENABLED Poll(w)
        /\ (workers[w].pc = "get" /\ queue # <<>>) => ENABLED Get(w)
        /\ workers[w].pc = "route" => ENABLED Dispatch(w)

\* two swaps are polling for pairs that do not exist yet, and a packet sent
\* after both requests has been delivered
C8_Witness ==
    /\ Len(swaps) = 2
    /\ \A k \in 1..2 : swaps[k].pc = "poll" /\ swaps[k].sent = <<>>
    /\ \A x \in epr["B"] : x.partner # "A"
    /\ \E i \in 1..Len(hist) :
          /\ hist[i].act = "direct" /\ hist[i].to = "B"
          /\ hist[i].pkt.uid = 3

\* C5: the queue is FIFO and each packet is consumed exactly once: what was
\* dequeued, followed by what is still queued, is what was enqueued, in the
\* order of the send calls; and every packet in the queue of a running worker
\* is dequeued sooner or later, unless stop() is called
C5_FifoExactlyOnce ==
    /\ [](enq = deq \o queue)
    /\ \A n \in 1..(MaxSend + MaxForward) :
          (Len(enq) >= n /\ ~stop_thread /\ \E w \in DOMAIN workers : Live(w))
              ~> (Len(deq) >= n \/ stop_thread)

\* no worker is inside an iteration of its loop
NoIteration == \A w \in DOMAIN workers : workers[w].pc \in {"top", "exited", "dead"}

\* C9: stop() sets the flag and nothing else (the queue, the workers and the
\* swap tasks are as they were); a worker leaves its loop only at the top of
\* an iteration and with the flag set, and with the flag set it does nothing
\* else there; once the flag is set and no iteration is under way nothing is
\* dequeued any more; with the flag set a worker that holds a packet still
\* dispatches it and a swap task still takes its steps
C9_CooperativeStop ==
    /\ [][/\ stop_thread' # stop_thread =>
               /\ stop_thread'
               /\ UNCHANGED <<mut, moves, netVars, queue, workers, hist, fwd, enq, deq, hostVars,
                              swaps, nsent, nfwd, ntopo>>
          /\ \A w \in DOMAIN workers :
               /\ (workers[w].pc = "top" /\ stop_thread /\ workers'[w] # workers[w]) =>
                      workers'[w].pc = "exited"
               /\ (workers'[w].pc = "exited" /\ workers[w].pc # "exited") =>
                      (workers[w].pc = "top" /\ stop_thread)
          /\ (stop_thread /\ NoIteration) =>
               (/\ stop_thread' /\ NoIteration' /\ deq' = deq
                /\ Len(queue') >= Len(queue)
                /\ SubSeq(queue', 1, Len(queue)) = queue)]_vars
    /\ [](stop_thread =>
            /\ \A w \in DOMAIN workers : workers[w].pc = "route" => ENABLED Dispatch(w)
            /\ \A k \in 1..Len(swaps) :
                 /\ swaps[k].pc = "create" => ENABLED SwapCreate(k)
                 /\ swaps[k].pc = "refile" => ENABLED SwapRefile(k))

\* stop() has been called, the worker has left its loop with a packet still
\* in the queue, and a swap launched before has run to its end
C9_Witness ==
    /\ stop_thread
    /\ \E w \in DOMAIN workers : workers[w].pc = "exited"
    /\ queue # <<>>
    /\ \E k \in 1..Len(swaps) : swaps[k].pc = "done"

\* ------------------------------------------------------ topology claims
\* C11: every host id that is a key of the ARP table is a node of the graph
C11_ArpWithinGraph == ARP \subseteq nodes

\* the route from s to t, if there is one, passes through h
RouteThrough(s, t, h) ==
    LET r == ShortestPath(nodes, edges, s, t)
    IN  r.ok /\ \E i \in 2..(Len(r.route) - 1) : r.route[i] = h

\* C12: remove_host(h) takes h out of the ARP table and changes nothing
\* else: the nodes and edges of the graph, the queue and the stop flag are as
\* before, so every route is as before, through h as well; for a host that
\* is not registered it changes nothing at all
C12_RemoveOnlyArp ==
    [][\A h \in HostIds :
          RemoveHost(h, MaxTopoSteps) =>
            /\ ARP' = ARP \ {h}
            /\ nodes' = nodes /\ edges' = edges
            /\ queue' = queue /\ stop_thread' = stop_thread
            /\ \A x, y \in HostIds :
                  ShortestPath(nodes', edges', x, y) = ShortestPath(nodes, edges, x, y)
            /\ h \notin ARP =>
                  UNCHANGED <<netVars, queue, stop_thread, workers, hist, fwd, enq, deq,
                              hostVars, swaps, mut, moves>>]_vars

\* a host has been removed from the ARP table of a network with a packet in
\* its queue, and a route still passes through it
C12_Witness ==
    /\ queue # <<>>
    /\ \E h \in HostIds \ ARP : \E x, y \in ARP : RouteThrough(x, y, h)

\* C13: after add_host(h), a second add_host(h) with the same connections
\* leaves the ARP table, the nodes and the weighted edges as they are, and
\* the graph never holds two edges from one node to another
C13_AddIdempotent ==
    /\ [][\A h \in HostIds :
            AddHost(h, MaxTopoSteps) =>
              /\ ARP' \cup {h} = ARP'
              /\ UpdateNodes(nodes', h) = nodes'
              /\ UpdateEdges(edges', h) = edges']_vars
    /\ [](\A e, f \in edges : (e[1] = f[1] /\ e[2] = f[2]) => e = f)

\* a host with two connections has been registered, its edges are there and
\* registering it again is possible
C13_Witness ==
    /\ "B" \in ARP
    /\ {<<"B", "A", 1>>, <<"A", "B", 1>>, <<"B", "C", 1>>, <<"C", "B", 1>>} \subseteq edges
    /\ ENABLED AddHost("B", MaxTopoSteps)

\* C14: after add_host(h) both directed edges between h and each of its
\* connections exist with weight 1, whether or not the connection has been
\* added itself; and in every state the graph has an edge one way exactly when
\* it has it the other way, with weight 1
C14_EdgeSymmetry ==
    /\ [][\A h \in HostIds :
            AddHost(h, MaxTopoSteps) =>
              \A c \in Connections(h) : {<<h, c, 1>>, <<c, h, 1>>} \subseteq edges']_vars
    /\ [](\A e \in edges : e[3] = 1 /\ <<e[2], e[1], 1>> \in edges)

\* a host is registered before one of its connections, another after one of
\* its connections, and a node has been removed from the graph
C14_Witness ==
    /\ \E h \in ARP : \E c \in Connections(h) \ ARP : HasEdge(edges, c, h)
    /\ \E h \in ARP : \E c \in Connections(h) \cap ARP : HasEdge(edges, c, h)
    /\ \E h \in HostIds : h \notin nodes /\ ntopo > 0

\* a mutation applied in part: a registered host that is no node yet, or an
\* edge that is there one way only
PartlyApplied ==
    \/ \E h \in ARP : h \notin nodes
    \/ \E e \in edges : ~HasEdge(edges, e[2], e[1])

\* C15: the worker computes a route (and completes a dispatch) only when no
\* add_host is in progress on another thread, so the table and the graph it
\* reads are never those of a mutation applied in part
C15_TopologyExclusive ==
    [][hist' # hist => (mut = NoMutation /\ ~PartlyApplied)]_vars

\* ------------------------------------------------------ the quantum mover
IsSend(e) == e.call = "sendQubit"
IsRecv(e) == e.call = "recvQubit"
IsFile(e) == e.call = "add_data_qubit"

\* the j-th sendQubit of a move of k qubits along route: hops outer, qubits inner
NthSend(route, k, j) ==
    [call |-> "sendQubit", unit |-> ((j - 1) % k) + 1,
     at |-> route[((j - 1) \div k) + 1], to |-> route[((j - 1) \div k) + 2]]

\* C16: a move of k qubits along a route of L hosts that returns makes
\* exactly k * (L - 1) sendQubit calls and as many recvQubit calls; the sends
\* go link after link and, within a link, qubit after qubit; every send is
\* followed at once by the receive of that qubit at the other end of the
\* link; add_data_qubit is called only at route[-1], with route[0] as the
\* sender, right after the receive of that qubit on the last link
C16_MoverOrdering ==
    \A x \in 1..Len(moves) :
        moves[x].ok =>
            LET m == moves[x]
                k == m.units
                L == Len(m.route)
                sends == SelectSeq(m.calls, IsSend)
                recvs == SelectSeq(m.calls, IsRecv)
                files == SelectSeq(m.calls, IsFile)
            IN  /\ Len(sends) = k * (L - 1)
                /\ Len(recvs) = k * (L - 1)
                /\ \A j \in 1..Len(sends) : sends[j] = NthSend(m.route, k, j)
                /\ \A i \in 1..Len(m.calls) :
                      LET e == m.calls[i]
                      IN  /\ e.call = "sendQubit" =>
                                /\ i < Len(m.calls)
                                /\ m.calls[i + 1] =
                                     [call |-> "recvQubit", unit |-> e.unit, at |-> e.to, to |-> e.to]
                          /\ e.call = "add_data_qubit" =>
                                /\ e.at = m.route[L] /\ e.to = m.route[1]
                                /\ m.calls[i - 1] =
                                     [call |-> "recvQubit", unit |-> e.unit, at |-> e.at, to |-> e.at]
                /\ Len(files) = (IF L >= 2 THEN k ELSE 0)

\* two qubits have been moved over three links
C16_Witness ==
    \E x \in 1..Len(moves) :
        moves[x].ok /\ moves[x].units = MaxUnits /\ Len(moves[x].route) = 4
            /\ Len(moves[x].calls) > 0

\* the calls of _route_quantum_info made for the packet sent under uid u
MovesOf(u) == {x \in 1..Len(moves) : moves[x].uid = u}

\* a dispatch that invoked rec_packet of a host with a QUANTUM packet or
\* with a relay envelope that carries one
HandsQuantum(e) ==
    /\ e.to # None
    /\ IsOriginal(Innermost(e.out))
    /\ Innermost(e.out).payload_type = QUANTUM

\* C17: no packet is moved more than once; and when rec_packet of a host is
\* invoked with a QUANTUM packet, or with an envelope that carries it, its
\* qubits have been moved exactly once, over every link of a route from the
\* packet's sender to its receiver, whatever the number of hops, and are held
\* at the receiver
C17_MovedOnceBeforeDelivery ==
    /\ \A x, y \in 1..Len(moves) : moves[x].uid = moves[y].uid => x = y
    /\ \A i \in 1..Len(hist) :
          HandsQuantum(hist[i]) =>
            LET p == Innermost(hist[i].out) IN
            /\ Cardinality(MovesOf(p.uid)) = 1
            /\ \A x \in MovesOf(p.uid) :
                  LET m == moves[x] IN
                  /\ m.ok
                  /\ m.route[1] = p.sender /\ Last(m.route) = p.receiver
                  /\ Len(SelectSeq(m.calls, IsRecv)) = m.units * (Len(m.route) - 1)
            /\ \A k \in 1..Len(p.payload.units) : p.payload.units[k].q = p.receiver

\* a packet of qubits sent over three links has been relayed by the hosts
\* in between and its envelope has reached the last dispatch
C17_Witness ==
    \E i \in 1..Len(hist) :
        /\ HandsQuantum(hist[i])
        /\ hist[i].act = "unwrap"
        /\ Len(moves[CHOOSE x \in MovesOf(Innermost(hist[i].out).uid) : TRUE].route) = 4
        /\ Len(Innermost(hist[i].out).payload.units) = MaxUnits

\* ------------------------------------------------------- swap requests
\* a dispatch of a REC_EPR packet over a route of more than two hosts
IsSwapRequest(e) == e.pkt.protocol = REC_EPR /\ Len(e.route) > 2

\* C18: every dispatch of a REC_EPR packet over a route of more than two
\* hosts launches one swap task, with the packet's sender and receiver, that
\* route and the q_id of the payload or, when the payload has none, a new
\* one; the worker builds no envelope for it and invokes no host's rec_packet
C18_SwapLaunched ==
    LET reqs == SelectSeq(hist, IsSwapRequest)
    IN  /\ Len(swaps) = Len(reqs)
        /\ \A k \in 1..Len(reqs) :
              /\ reqs[k].act = "swap"
              /\ reqs[k].to = None /\ reqs[k].out = NoPacket
              /\ swaps[k].sender = reqs[k].pkt.sender
              /\ swaps[k].receiver = reqs[k].pkt.receiver
              /\ swaps[k].route = reqs[k].route
              /\ reqs[k].pkt.payload # NoPayload => swaps[k].q_id = reqs[k].pkt.payload.q_id

\* ------------------------------------------------------------- relaying
\* the hosts whose rec_packet was invoked with something carrying packet u,
\* in the order of the dispatches
HandedTo(u) ==
    LET Carries(e) == e.to # None /\ Innermost(e.out).uid = u
        es == SelectSeq(hist, Carries)
    IN  [n \in 1..Len(es) |-> es[n].to]

\* the dispatch of the packet sent under uid u itself
FirstDispatch(u) == CHOOSE i \in 1..Len(hist) : IsOriginal(hist[i].pkt) /\ hist[i].pkt.uid = u

Dispatched(u) == \E i \in 1..Len(hist) : IsOriginal(hist[i].pkt) /\ hist[i].pkt.uid = u

IsSuffix(r, full) == \E j \in 1..Len(full) : r = SubSeq(full, j, Len(full))

DispatchesOf(u) ==
    LET Of(e) == IsOriginal(Innermost(e.pkt)) /\ Innermost(e.pkt).uid = u
    IN  SelectSeq(hist, Of)

\* C20: in hop-by-hop mode, with every host of the line registered and the
\* graph and the table never changed, the n-th dispatch of a packet (or of an
\* envelope carrying it) computes the route of the first dispatch less its
\* first n - 1 hosts and hands to the second host of that; so a packet over a
\* route of L hosts is dispatched at most L - 1 times, is handed to its
\* receiver by the dispatch number L - 1 and to no host twice; every envelope
\* built carries TTL = 10
C20_RelayProgress ==
    (use_hop_by_hop /\ ntopo = 0) =>
      \A u \in 1..nsent :
        LET D == DispatchesOf(u)
            R == IF D = <<>> THEN <<>> ELSE D[1].route
            L == Len(R)
            H == HandedTo(u)
        IN  /\ \A n \in 1..Len(D) :
                  /\ n = 1 \/ n <= L - 1
                  /\ D[n].route = SubSeq(R, n, L)
                  /\ L >= 2 => D[n].to \in {R[n + 1], None}
                  /\ D[n].act = "relay" => D[n].out.TTL = DefaultTTL
                  /\ (L >= 2 /\ D[n].to = R[L]) => n = L - 1
            /\ \A a, b \in 1..Len(H) : H[a] = H[b] => a = b
            /\ \A n \in 1..Len(H) : H[n] = R[n + 1]

\* in hop-by-hop mode on the unchanged line a packet from A to D has been
\* handed to B, C and D, by three dispatches
C20_Witness ==
    /\ use_hop_by_hop /\ ntopo = 0
    /\ \E u \in 1..nsent :
          /\ HandedTo(u) = <<"B", "C", "D">>
          /\ Len(DispatchesOf(u)) = 3

====
